---- MODULE Spec2Model ----
(***************************************************************************)
(* Model of the /forecast request handler of backend/app.py: file check,   *)
(* column normalisation, month parsing with a fallback format, numeric     *)
(* coercion, the validity gate, the two-model forecasting adapter, the     *)
(* horizon builder and the response assembler.                             *)
(*                                                                         *)
(* Numbers are fixed-point integers counted in thousandths, so that        *)
(* rounding to two decimals is observable.  The smoothing library is a     *)
(* black box: each fit either raises or returns one of a few 12-point      *)
(* forecasts.                                                              *)
(***************************************************************************)
EXTENDS Integers, Sequences, FiniteSets, TLC

\* ---------------------------------------------------------------- bounds
MaxRows == 4

\* ------------------------------------------------------------- constants
Horizon == 12
MinRows == 3
Pivot == 69

MonthAbbr == <<"Jan", "Feb", "Mar", "Apr", "May", "Jun",
               "Jul", "Aug", "Sep", "Oct", "Nov", "Dec">>

\* ------------------------------------------------------------------ cells
\* One record shape for every cell value so that any two cells compare.
\*   kind "str"  : text; fmt tells which strptime pattern the text matches
\*                 ("yb" = YY-Mon, "dby" = DD-Mon-YY, "num" = a numeral,
\*                 "junk" = none of them)
\*   kind "ts"   : a parsed timestamp y-mon-d
\*   kind "NaT"  : missing timestamp
\*   kind "num"  : a number v (thousandths)
\*   kind "nan"  : missing number
\*   kind "none" : the null marker of the response
\*   kind "disp" : a display month b-y
Cell(kind, fmt, y, b, mon, d, v) ==
    [kind |-> kind, fmt |-> fmt, y |-> y, b |-> b, mon |-> mon, d |-> d, v |-> v]

StrYB(yy, b)      == Cell("str", "yb", yy, b, 0, 0, 0)
StrDBY(dd, b, yy) == Cell("str", "dby", yy, b, 0, dd, 0)
StrNum(v)         == Cell("str", "num", 0, "", 0, 0, v)
StrJunk           == Cell("str", "junk", 0, "", 0, 0, 0)
Ts(y, mon, d)     == Cell("ts", "", y, "", mon, d, 0)
NaT               == Cell("NaT", "", 0, "", 0, 0, 0)
Num(v)            == Cell("num", "", 0, "", 0, 0, v)
NaN               == Cell("nan", "", 0, "", 0, 0, 0)
None              == Cell("none", "", 0, "", 0, 0, 0)
Disp(b, y)        == Cell("disp", "", y, b, 0, 0, 0)

IsNA(c) == c.kind \in {"NaT", "nan", "none"}

\* ------------------------------------------------------------ file check
NoFile == <<>>
Filenames == { <<"data", ".csv">>, <<"data", ".xlsx">>, <<"data", ".xls">>,
               <<"data", ".txt">>, <<"data", ".CSV">>,
               <<"data", ".csv", ".txt">> }

\* variant: a suffix test that accepts every name
endswith_any(name, suffixes) == Len(name) > 0

\* str.endswith on the last component of the name
endswith(name, suffixes) ==
    /\ Len(name) > 0
    /\ name[Len(name)] \in suffixes

\* ------------------------------------------------------ column normaliser
RECURSIVE lstrip(_)
lstrip(h) == IF h # <<>> /\ Head(h) = " " THEN lstrip(Tail(h)) ELSE h

RECURSIVE rstrip(_)
rstrip(h) ==
    IF h # <<>> /\ h[Len(h)] = " " THEN rstrip(SubSeq(h, 1, Len(h) - 1)) ELSE h

strip(h) == rstrip(lstrip(h))

rename(h) ==
    CASE h = <<"Months">>        -> <<"Month">>
      [] h = <<"Cash Inflow">>   -> <<"Inflow">>
      [] h = <<"Cash Outflow">>  -> <<"Outflow">>
      [] h = <<"Net Cash Flow">> -> <<"Net_Cashflow">>
      [] OTHER                   -> h

StandardizeColumns(cols) == [i \in 1..Len(cols) |-> rename(strip(cols[i]))]

HasCol(cols, name) == \E i \in 1..Len(cols) : cols[i] = <<name>>
ColIdx(cols, name) == CHOOSE i \in 1..Len(cols) : cols[i] = <<name>>

\* ------------------------------------------------------------ date parser
MonthNo(b) == CHOOSE m \in 1..12 : MonthAbbr[m] = b
IsAbbr(b) == \E m \in 1..12 : MonthAbbr[m] = b

\* strptime %y: two-digit years below the pivot are 20xx, the others 19xx
Year2(yy) == IF yy < Pivot THEN 2000 + yy ELSE 1900 + yy

\* pd.to_datetime(value, format=fmt, errors="coerce") on one value:
\* timestamps and missing values pass through, text is parsed only when it
\* matches the format, anything else becomes NaT.
to_datetime(c, fmt) ==
    CASE c.kind \in {"ts", "NaT"} -> c
      [] c.kind = "str" /\ c.fmt = fmt /\ fmt = "yb" /\ IsAbbr(c.b)
            -> Ts(Year2(c.y), MonthNo(c.b), 1)
      [] c.kind = "str" /\ c.fmt = fmt /\ fmt = "dby" /\ IsAbbr(c.b)
            -> Ts(Year2(c.y), MonthNo(c.b), c.d)
      [] OTHER -> NaT

\* ordering key of a timestamp
DateKey(c) == (c.y * 12 + (c.mon - 1)) * 31 + (c.d - 1)

\* strftime("%b-%Y")
strftime(c) == Disp(MonthAbbr[c.mon], c.y)

\* ---------------------------------------------------------- numeric coercer
\* variant: errors="ignore", text that is no numeral is left as it is
to_numeric_ignore(c) ==
    IF c.kind = "str" /\ c.fmt = "num" THEN Num(c.v) ELSE c

\* pd.to_numeric(value, errors="coerce") on one value
to_numeric(c) ==
    CASE c.kind = "num" -> c
      [] c.kind = "str" /\ c.fmt = "num" -> Num(c.v)
      [] OTHER -> NaN

\* elementwise float addition: missing if either operand is missing
Add(a, b) == IF a.kind = "num" /\ b.kind = "num" THEN Num(a.v + b.v) ELSE NaN

\* np.round(x, 2) computes rint(x * 100) / 100 in binary floating point.
\* A value of x thousandths is held as the double nearest to x / 1000.  When
\* the third decimal is not 5 the product is far from a half and the result
\* is the nearest hundredth.  When it is 5, x / 1000 = n / 200 with n odd,
\* and the operators below follow the two roundings (of n / 200 to a
\* double, and of its product with 100) to tell whether the product is
\* exactly q + 0.5, which rint sends to the even neighbour, or the double
\* just below or above it.

\* 2^k modulo 200
RECURSIVE Pow2Mod200(_)
Pow2Mod200(k) == IF k = 0 THEN 1 ELSE (2 * Pow2Mod200(k - 1)) % 200

\* the binary exponent e of n / 200:  2^e <= n / 200 < 2^(e + 1)
RECURSIVE ExpUp(_, _)
ExpUp(n, e) == IF 200 * 2^(e + 1) <= n THEN ExpUp(n, e + 1) ELSE e

RECURSIVE ExpDown(_, _)
ExpDown(n, j) == IF n * 2^j >= 200 THEN j ELSE ExpDown(n, j + 1)

BinExp(n) == IF n >= 200 THEN ExpUp(n, 0) ELSE 0 - ExpDown(n, 1)

\* whether the significand of n / 200 is below 1.28, so that the product
\* with 100 has the exponent e + 6 (and e + 7 otherwise)
LowSignificand(n, e) ==
    IF e >= 0 THEN n < 256 * 2^e ELSE n * 2^(0 - e) < 256

\* rint(fl(fl((10 q + 5) / 1000) * 100)) for q >= 0
RintTie(q) ==
    LET n == 2 * q + 1
        e == BinExp(n)
        \* what is cut from n / 200 after 53 bits, in 200ths of its last place
        rem == ((n % 200) * Pow2Mod200(52 - e)) % 200
        \* twice the distance of the exact product from q + 0.5, in last
        \* places of n / 200
        dist == IF rem < 100 THEN rem ELSE 200 - rem
    IN  IF LowSignificand(n, e) /\ dist > 64
        THEN IF rem < 100 THEN q ELSE q + 1
        ELSE IF q % 2 = 0 THEN q ELSE q + 1

Round2v(x) ==
    LET a == IF x < 0 THEN 0 - x ELSE x
        q == a \div 10
        r == a % 10
        h == IF r < 5 THEN q ELSE IF r > 5 THEN q + 1 ELSE RintTie(q)
    IN  IF x < 0 THEN 0 - 10 * h ELSE 10 * h

Round2(c) == IF c.kind = "num" THEN Num(Round2v(c.v)) ELSE c

\* ------------------------------------------------------------- the upload
\* Header rows an upload may carry (each header is a sequence of tokens,
\* " " being surrounding whitespace).  The first two normalise to the
\* canonical schema, the others lack a required column.
FullHeader ==
    << <<"Months">>, <<"Cash Inflow">>, <<"Cash Outflow">>, <<"Net Cash Flow">> >>
PaddedHeader ==
    << <<" ", "Month", " ">>, <<"Inflow", " ">>, <<" ", "Outflow">> >>
PartialHeaders ==
    { << <<"Date">>, <<"Inflow">>, <<"Outflow">> >>,
      << <<"Month">>, <<"Inflow">>, <<"Cash Out">> >>,
      << <<"Month">>, <<"Cash In">>, <<"Outflow">> >> }

\* what an upload's own net column says; never the sum of the other two
UploadNet == Num(999000)

\* the rows of an upload: month text in the first format, in the second
\* format or in neither, with numeric values; and rows whose inflow or
\* outflow is not a numeral
RawRows ==
    { <<StrYB(24, "Jan"), Num(100000), StrNum(-40000)>>,
      <<StrYB(24, "Dec"), Num(250000), StrNum(-40000)>>,
      <<StrDBY(15, "Mar", 24), Num(100000), StrNum(-40000)>>,
      <<StrJunk, Num(100000), StrNum(-40000)>>,
      <<StrYB(24, "Dec"), StrJunk, StrNum(-40000)>>,
      <<StrYB(24, "Jan"), Num(100000), StrJunk>> }

\* rows used with the less common header rows
FewRows == { <<StrYB(24, "Jan"), Num(100000), StrNum(-40000)>>,
             <<StrYB(24, "Dec"), Num(100000), StrNum(-40000)>> }

Table(h, r) ==
    [columns |-> h,
     rows |-> [i \in 1..Len(r) |->
                  IF Len(h) = 4 THEN Append(r[i], UploadNet) ELSE r[i]]]

Tables ==
    { Table(hr[1], hr[2]) :
        hr \in ({FullHeader} \X UNION { [1..n -> RawRows] : n \in 0..MaxRows })
               \cup ({PaddedHeader} \X [1..MinRows -> FewRows])
               \cup (PartialHeaders \X [1..1 -> FewRows]) }

EmptyFrame == [columns |-> <<>>, rows |-> <<>>]

\* ------------------------------------------------------- frame operations
Column(frame, name) ==
    [i \in 1..Len(frame.rows) |-> frame.rows[i][ColIdx(frame.columns, name)]]

\* df[name] = values : overwrite the column, or append it when absent
SetColumn(frame, name, values) ==
    IF HasCol(frame.columns, name)
    THEN [frame EXCEPT !.rows =
            [i \in 1..Len(frame.rows) |->
                [frame.rows[i] EXCEPT ![ColIdx(frame.columns, name)] = values[i]]]]
    ELSE [columns |-> Append(frame.columns, <<name>>),
          rows |-> [i \in 1..Len(frame.rows) |-> Append(frame.rows[i], values[i])]]

\* the rows that have no missing value in any of the columns idxs
RECURSIVE KeepComplete(_, _)
KeepComplete(rows, idxs) ==
    IF rows = <<>> THEN <<>>
    ELSE IF \A k \in idxs : ~IsNA(Head(rows)[k])
         THEN <<Head(rows)>> \o KeepComplete(Tail(rows), idxs)
         ELSE KeepComplete(Tail(rows), idxs)

\* df.dropna(subset=names)
dropna_subset(frame, names) ==
    [frame EXCEPT !.rows =
        KeepComplete(frame.rows, { ColIdx(frame.columns, nm) : nm \in names })]

Perms(n) == { p \in [1..n -> 1..n] : \A i, j \in 1..n : i # j => p[i] # p[j] }
PermsOf == [n \in 0..MaxRows |-> Perms(n)]

\* variant: the frame is left in upload order
sort_values_none(frame, name) == {frame}

\* the orders df.sort_values(name) may return: ascending on the column,
\* with rows of equal key in any relative order (the default sort is not
\* stable)
sort_values(frame, name) ==
    LET n == Len(frame.rows)
        k == ColIdx(frame.columns, name)
    IN  { [frame EXCEPT !.rows = [i \in 1..n |-> frame.rows[p[i]]]] :
            p \in { q \in PermsOf[n] :
                      \A i \in 1..(n - 1) :
                         DateKey(frame.rows[q[i]][k]) <= DateKey(frame.rows[q[i + 1]][k]) } }

\* variant: each value that failed the first format is retried on its own
\* text under the second format
ParseMonthColumn_percell(frame) ==
    LET raw == Column(frame, "Month")
        first == [i \in 1..Len(raw) |-> to_datetime(raw[i], "yb")]
    IN  [months |-> [i \in 1..Len(raw) |->
                        IF IsNA(first[i]) THEN to_datetime(raw[i], "dby")
                        ELSE first[i]],
         retried |-> \E i \in 1..Len(raw) : IsNA(first[i])]

\* Step 3, lines 46-48: the column is overwritten by the first parse, and the
\* retry under the second format reads that overwritten column.
ParseMonthColumn(frame) ==
    LET first == [i \in 1..Len(frame.rows) |->
                     to_datetime(Column(frame, "Month")[i], "yb")]
        allna == \A i \in 1..Len(first) : IsNA(first[i])
        second == [i \in 1..Len(first) |-> to_datetime(first[i], "dby")]
    IN  [months |-> IF allna THEN second ELSE first, retried |-> allna]

\* ------------------------------------------------------ forecasting engine
Labels == <<"Inflow", "Outflow">>
Primary == "ExponentialSmoothing"
Fallback == "SimpleExpSmoothing"

\* what fit.forecast(12) may return: a line from a level with a slope, or
\* twelve missing values
Line(level, slope) == [k \in 1..Horizon |-> Num(level + k * slope)]
Missing12 == [k \in 1..Horizon |-> NaN]
PrimaryOutcomes == { Line(100004, 3), Missing12 }
FallbackOutcomes == { Line(-39995, 0) }

\* -------------------------------------------------------- horizon builder
\* variant: the horizon starts at the last historical month itself
MonthBegin1_same(c) == Ts(c.y, c.mon, 1)

\* Timestamp + MonthBegin(1): the first day of the following month
MonthBegin1(c) ==
    IF c.mon = 12 THEN Ts(c.y + 1, 1, 1) ELSE Ts(c.y, c.mon + 1, 1)

\* the k-th month (k = 0, 1, ...) of date_range(start, freq="MS")
MonthStart(start, k) ==
    LET idx == start.y * 12 + (start.mon - 1) + k
    IN  Ts(idx \div 12, (idx % 12) + 1, 1)

date_range(start) == [k \in 1..Horizon |-> MonthStart(start, k - 1)]

\* ------------------------------------------------------ response assembler
\* one record of df_display inside the concatenation: the forecast columns
\* do not exist for it and come out missing
HistRecord(frame, row) ==
    [Month |-> strftime(row[ColIdx(frame.columns, "Month")]),
     Inflow |-> row[ColIdx(frame.columns, "Inflow")],
     Outflow |-> row[ColIdx(frame.columns, "Outflow")],
     Net_Cashflow |-> row[ColIdx(frame.columns, "Net_Cashflow")],
     Inflow_Forecast |-> NaN,
     Outflow_Forecast |-> NaN,
     Net_Cashflow_Forecast |-> NaN]

\* variant: the net forecast is the rounded sum of the unrounded values
ForecastRecord_roundsum(month, inf, outf) ==
    LET i2 == Round2(inf)
        o2 == Round2(outf)
        net == Round2(Add(inf, outf))
    IN  [Month |-> strftime(month),
         Inflow |-> i2,
         Outflow |-> o2,
         Net_Cashflow |-> net,
         Inflow_Forecast |-> i2,
         Outflow_Forecast |-> o2,
         Net_Cashflow_Forecast |-> net]

\* lines 87-96 and 103-105: one record of forecast_df
ForecastRecord(month, inf, outf) ==
    LET i2 == Round2(inf)
        o2 == Round2(outf)
        net == Add(i2, o2)
    IN  [Month |-> strftime(month),
         Inflow |-> i2,
         Outflow |-> o2,
         Net_Cashflow |-> net,
         Inflow_Forecast |-> i2,
         Outflow_Forecast |-> o2,
         Net_Cashflow_Forecast |-> net]

\* pd.concat([a, b], ignore_index=True)
concat(a, b) == a \o b

\* combined.replace([nan, inf, -inf], None)
replace_nan(rec) ==
    [f \in DOMAIN rec |-> IF rec[f].kind = "nan" THEN None ELSE rec[f]]

\* variant: how="any", a record goes as soon as one field is missing
dropna_any(recs) ==
    SelectSeq(recs, LAMBDA rec : \A f \in DOMAIN rec : ~IsNA(rec[f]))

\* combined.dropna(how="all")
dropna_all(recs) ==
    SelectSeq(recs, LAMBDA rec : ~(\A f \in DOMAIN rec : IsNA(rec[f])))

\* variant: a gate that lets two rows through
TooFewRows_two(frame) == Len(frame.rows) < MinRows - 1

\* the validity gate of line 58
TooFewRows(frame) == Len(frame.rows) < MinRows

\* ------------------------------------------------------------------ state
VARIABLES
    pc,               \* position in the handler
    file,             \* request.files.get("file"): NoFile or a file name
    upload,           \* the table as read from the file (kept for reference)
    df,               \* the working frame
    retried,          \* whether the second date format was tried
    label,            \* index in Labels of the series being forecast
    forecasts,        \* per series, what safe_forecast returned
    forecast_df,      \* the twelve forecast records
    combined,         \* the merged records
    response,         \* the response sent, once pc = "done"
    ran,              \* the pipeline stages executed so far
    fitted,           \* the <<series, model>> pairs whose fit was attempted
    failed            \* the <<series, model>> pairs whose fit raised

vars == <<pc, file, upload, df, retried, label, forecasts, forecast_df,
          combined, response, ran, fitted, failed>>

NoResponse == [code |-> 0, error |-> "", status |-> "", rows_received |-> 0,
               forecast |-> <<>>]
ErrorResponse(code, msg) == [NoResponse EXCEPT !.code = code, !.error = msg]
SuccessResponse(n, recs) ==
    [NoResponse EXCEPT !.code = 200, !.status = "success",
                       !.rows_received = n, !.forecast = recs]

Init ==
    /\ pc = "start"
    /\ file \in {NoFile} \cup Filenames
    /\ upload = EmptyFrame
    /\ df = EmptyFrame
    /\ retried = FALSE
    /\ label = 1
    /\ forecasts = [l \in {"Inflow", "Outflow"} |-> <<>>]
    /\ forecast_df = <<>>
    /\ combined = <<>>
    /\ response = NoResponse
    /\ ran = {}
    /\ fitted = {}
    /\ failed = {}

\* return jsonify(...), code
Reply(r) ==
    /\ response' = r
    /\ pc' = "done"

\* lines 19-29: the file checks
CheckFile ==
    /\ pc = "start"
    /\ IF file = NoFile
       THEN Reply(ErrorResponse(400, "No file uploaded"))
       ELSE IF endswith(file, {".csv"})
       THEN pc' = "read_csv" /\ UNCHANGED response
       ELSE IF endswith(file, {".xlsx", ".xls"})
       THEN pc' = "read_excel" /\ UNCHANGED response
       ELSE Reply(ErrorResponse(400, "Unsupported file format"))
    /\ UNCHANGED <<file, upload, df, retried, label, forecasts, forecast_df,
                   combined, ran, fitted, failed>>

\* lines 25 and 27: pd.read_csv / pd.read_excel, which may raise on a
\* malformed file (caught at line 121)
ReadFile ==
    /\ pc \in {"read_csv", "read_excel"}
    /\ ran' = ran \cup {"read"}
    /\ \/ /\ Reply(ErrorResponse(500, "cannot read file"))
          /\ UNCHANGED <<upload, df>>
       \/ \E t \in Tables :
            /\ upload' = t
            /\ df' = t
            /\ pc' = "standardize"
            /\ UNCHANGED response
    /\ UNCHANGED <<file, retried, label, forecasts, forecast_df, combined,
                   fitted, failed>>

\* lines 32-41
Standardize ==
    /\ pc = "standardize"
    /\ ran' = ran \cup {"standardize"}
    /\ df' = [df EXCEPT !.columns = StandardizeColumns(df.columns)]
    /\ pc' = "parse"
    /\ UNCHANGED <<file, upload, retried, label, forecasts, forecast_df,
                   combined, response, fitted, failed>>

\* lines 43-50: df["Month"] raises KeyError when the column is absent
ParseMonths ==
    /\ pc = "parse"
    /\ ran' = ran \cup {"parse"}
    /\ IF ~HasCol(df.columns, "Month")
       THEN /\ Reply(ErrorResponse(500, "'Month'"))
            /\ UNCHANGED <<df, retried>>
       ELSE LET parsed == ParseMonthColumn(df)
                kept == dropna_subset(SetColumn(df, "Month", parsed.months),
                                      {"Month"})
            IN  /\ retried' = parsed.retried
                /\ df' \in sort_values(kept, "Month")
                /\ pc' = "numeric"
                /\ UNCHANGED response
    /\ UNCHANGED <<file, upload, label, forecasts, forecast_df, combined,
                   fitted, failed>>

\* lines 53-59
ConvertNumerics ==
    /\ pc = "numeric"
    /\ ran' = ran \cup {"numeric"}
    /\ IF ~HasCol(df.columns, "Inflow")
       THEN Reply(ErrorResponse(500, "'Inflow'")) /\ UNCHANGED df
       ELSE IF ~HasCol(df.columns, "Outflow")
       THEN Reply(ErrorResponse(500, "'Outflow'")) /\ UNCHANGED df
       ELSE LET n == Len(df.rows)
                d1 == SetColumn(df, "Inflow",
                        [i \in 1..n |-> to_numeric(Column(df, "Inflow")[i])])
                d2 == SetColumn(d1, "Outflow",
                        [i \in 1..n |-> to_numeric(Column(d1, "Outflow")[i])])
                d3 == SetColumn(d2, "Net_Cashflow",
                        [i \in 1..n |-> Add(Column(d2, "Inflow")[i],
                                            Column(d2, "Outflow")[i])])
                d4 == dropna_subset(d3, {"Inflow", "Outflow"})
            IN  /\ df' = d4
                /\ IF TooFewRows(d4)
                   THEN Reply(ErrorResponse(400,
                                "Not enough valid rows for forecasting"))
                   ELSE pc' = "primary" /\ UNCHANGED response
    /\ UNCHANGED <<file, upload, retried, label, forecasts, forecast_df,
                   combined, fitted, failed>>

\* after safe_forecast returned for the current series
Returned(values) ==
    /\ forecasts' = [forecasts EXCEPT ![Labels[label]] = values]
    /\ IF label < Len(Labels)
       THEN label' = label + 1 /\ pc' = "primary"
       ELSE label' = label /\ pc' = "build"
    /\ UNCHANGED response

\* variant: no except branch, a failure of the first model ends the request
FitPrimary_nofallback ==
    /\ pc = "primary"
    /\ fitted' = fitted \cup {<<Labels[label], Primary>>}
    /\ \/ /\ failed' = failed \cup {<<Labels[label], Primary>>}
          /\ Reply(ErrorResponse(500, "fit failed"))
          /\ UNCHANGED <<label, forecasts>>
       \/ \E out \in PrimaryOutcomes :
            /\ Returned(out)
            /\ UNCHANGED failed
    /\ UNCHANGED <<file, upload, df, retried, forecast_df, combined, ran>>

\* lines 64-67: the additive-trend model; on any exception control passes
\* to the except branch of line 68
FitPrimary ==
    /\ pc = "primary"
    /\ fitted' = fitted \cup {<<Labels[label], Primary>>}
    /\ \/ /\ failed' = failed \cup {<<Labels[label], Primary>>}
          /\ pc' = "fallback"
          /\ UNCHANGED <<label, forecasts, response>>
       \/ \E out \in PrimaryOutcomes :
            /\ Returned(out)
            /\ UNCHANGED failed
    /\ UNCHANGED <<file, upload, df, retried, forecast_df, combined, ran>>

\* lines 69-71: the simple model; an exception here leaves safe_forecast
\* and is caught at line 121
FitFallback ==
    /\ pc = "fallback"
    /\ fitted' = fitted \cup {<<Labels[label], Fallback>>}
    /\ \/ /\ failed' = failed \cup {<<Labels[label], Fallback>>}
          /\ Reply(ErrorResponse(500, "fit failed"))
          /\ UNCHANGED <<label, forecasts>>
       \/ \E out \in FallbackOutcomes :
            /\ Returned(out)
            /\ UNCHANGED failed
    /\ UNCHANGED <<file, upload, df, retried, forecast_df, combined, ran>>

\* lines 80-96 and 103-105
BuildForecast ==
    /\ pc = "build"
    /\ ran' = ran \cup {"build"}
    /\ LET last_date == df.rows[Len(df.rows)][ColIdx(df.columns, "Month")]
           forecast_index == date_range(MonthBegin1(last_date))
       IN  forecast_df' =
             [k \in 1..Horizon |->
                ForecastRecord(forecast_index[k], forecasts["Inflow"][k],
                               forecasts["Outflow"][k])]
    /\ pc' = "combine"
    /\ UNCHANGED <<file, upload, df, retried, label, forecasts, combined,
                   response, fitted, failed>>

\* lines 99-110
Combine ==
    /\ pc = "combine"
    /\ ran' = ran \cup {"combine"}
    /\ LET df_display == [i \in 1..Len(df.rows) |-> HistRecord(df, df.rows[i])]
           all == concat(df_display, forecast_df)
       IN  combined' = dropna_all([i \in 1..Len(all) |-> replace_nan(all[i])])
    /\ pc' = "respond"
    /\ UNCHANGED <<file, upload, df, retried, label, forecasts, forecast_df,
                   response, fitted, failed>>

\* lines 115-119
Respond ==
    /\ pc = "respond"
    /\ Reply(SuccessResponse(Len(df.rows), combined))
    /\ UNCHANGED <<file, upload, df, retried, label, forecasts, forecast_df,
                   combined, ran, fitted, failed>>

Next ==
    \/ CheckFile
    \/ ReadFile
    \/ Standardize
    \/ ParseMonths
    \/ ConvertNumerics
    \/ FitPrimary
    \/ FitFallback
    \/ BuildForecast
    \/ Combine
    \/ Respond

Spec == Init /\ [][Next]_vars

\* ================================================================ claims
\* Reference notions, stated on the upload itself.  In every upload the
\* month, inflow and outflow columns are the first three.
MatchesPrimary(c) == c.kind = "str" /\ c.fmt = "yb"
MatchesFallback(c) == c.kind = "str" /\ c.fmt = "dby"
IsNumeral(c) == c.kind = "num" \/ (c.kind = "str" /\ c.fmt = "num")
NumericRow(r) == IsNumeral(r[2]) /\ IsNumeral(r[3])

Uploaded == upload # EmptyFrame
SchemaComplete ==
    /\ Uploaded
    /\ \A nm \in {"Month", "Inflow", "Outflow"} :
          HasCol(StandardizeColumns(upload.columns), nm)

UploadIdx == 1..Len(upload.rows)
AnyPrimary == \E i \in UploadIdx : MatchesPrimary(upload.rows[i][1])
\* the upload rows that the cleaning keeps
CleanIdx ==
    { i \in UploadIdx : MatchesPrimary(upload.rows[i][1]) /\ NumericRow(upload.rows[i]) }

\* month number of a two-digit-year month text, and of a display month
TextMonthKey(c) ==
    (IF c.y < 69 THEN 2000 + c.y ELSE 1900 + c.y) * 12
      + (CHOOSE m \in 1..12 : MonthAbbr[m] = c.b)
DispMonthKey(c) == c.y * 12 + (CHOOSE m \in 1..12 : MonthAbbr[m] = c.b)

Succeeded == pc = "done" /\ response.code = 200
FitGaveUp == \E l \in {"Inflow", "Outflow"} : <<l, Fallback>> \in failed

\* C1: a month column in which every value fails the first format and
\* matches the second keeps all its rows: with at least three such rows
\* with numeric inflow and outflow (and no fit giving up) the request
\* succeeds and rows_received is the number of uploaded rows.
C1_FallbackColumnRetained ==
    ( /\ pc = "done"
      /\ SchemaComplete
      /\ Len(upload.rows) >= MinRows
      /\ \A i \in UploadIdx :
            MatchesFallback(upload.rows[i][1]) /\ NumericRow(upload.rows[i])
      /\ ~FitGaveUp )
    => ( /\ response.code = 200
         /\ response.rows_received = Len(upload.rows) )

\* C2: in a success response the forecast sequence has rows_received + 12
\* records, rows_received being the number of rows that survived the date
\* and numeric cleaning, which is at least 3.
C2_LengthIsRowsPlusHorizon ==
    Succeeded =>
      /\ Len(response.forecast) = response.rows_received + 12
      /\ response.rows_received = Cardinality(CleanIdx)
      /\ response.rows_received >= 3

C2_Witness ==
    /\ Succeeded
    /\ Len(upload.rows) = 4
    /\ response.rows_received = 3
    /\ Len(response.forecast) = 15

\* C3: when fewer than three rows remain after the cleaning, the request
\* has ended with the 400 "not enough rows" response and no model was
\* fitted for either series.
C3_TooFewRowsRejected ==
    ( /\ "numeric" \in ran
      /\ SchemaComplete
      /\ Len(df.rows) < 3 )
    => ( /\ pc = "done"
         /\ response = ErrorResponse(400, "Not enough valid rows for forecasting")
         /\ fitted = {}
         /\ ran \cap {"build", "combine"} = {} )

C3_Witness ==
    /\ pc = "done"
    /\ "numeric" \in ran
    /\ Len(upload.rows) = 4
    /\ Len(df.rows) = 2
    /\ response.code = 400

\* C4: a request without a file, or with a file whose name ends in none of
\* .csv, .xlsx, .xls, ends with the matching 400 response before any later
\* stage: nothing is read, normalised, parsed, coerced or fitted.
C4_BadFileStopsEarly ==
    LET untouched == /\ pc = "done"
                     /\ ran = {}
                     /\ fitted = {}
                     /\ ~Uploaded
                     /\ df = EmptyFrame
    IN  /\ (pc # "start" /\ file = NoFile) =>
              (untouched /\ response = ErrorResponse(400, "No file uploaded"))
        /\ (pc # "start" /\ file # NoFile
              /\ file[Len(file)] \notin {".csv", ".xlsx", ".xls"}) =>
              (untouched /\ response = ErrorResponse(400, "Unsupported file format"))

C4_Witness ==
    /\ pc = "done"
    /\ file = <<"data", ".csv", ".txt">>
    /\ response.code = 400

\* C5: per series, the simple model is fitted exactly when the additive-
\* trend model failed; a request that reached the fitting ends in an error
\* only with a 500 and only when both models failed for the same series,
\* and otherwise succeeds.
C5_FallbackOnlyAfterPrimaryFailure ==
    /\ \A l \in {"Inflow", "Outflow"} :
          /\ <<l, Fallback>> \in fitted => <<l, Primary>> \in failed
          /\ <<l, Primary>> \in failed =>
                (<<l, Fallback>> \in fitted \/ (pc = "fallback" /\ Labels[label] = l))
          /\ <<l, Fallback>> \in failed => (pc = "done" /\ response.code = 500)
    /\ (pc = "done" /\ fitted # {}) =>
          IF \E l \in {"Inflow", "Outflow"} :
                {<<l, Primary>>, <<l, Fallback>>} \subseteq failed
          THEN response.code = 500
          ELSE response.code = 200

C5_Witness ==
    /\ Succeeded
    /\ <<"Inflow", Primary>> \in failed
    /\ <<"Inflow", Fallback>> \in fitted
    /\ <<"Outflow", Fallback>> \notin fitted

\* C6: a success response lists the retained historical rows first, in
\* non-decreasing month order whatever the order in the upload, and then
\* the twelve forecast rows in increasing month order.
C6_HistoryThenForecastAscending ==
    Succeeded =>
      LET f == response.forecast
          n == response.rows_received
      IN  /\ Len(f) = n + 12
          /\ \A i \in 1..n : f[i].Inflow_Forecast = None
          /\ \A k \in 1..12 : f[n + k].Month = forecast_df[k].Month
          /\ \A k \in 1..12 : f[n + k].Inflow = forecast_df[k].Inflow_Forecast
                               \/ f[n + k].Inflow = None
          /\ \A i \in 1..(n - 1) : DispMonthKey(f[i].Month) <= DispMonthKey(f[i + 1].Month)
          /\ \A i \in (n + 1)..(n + 11) :
                DispMonthKey(f[i].Month) < DispMonthKey(f[i + 1].Month)
          /\ \A key \in { TextMonthKey(upload.rows[i][1]) : i \in CleanIdx } :
                Cardinality({ i \in 1..n : DispMonthKey(f[i].Month) = key })
                  = Cardinality({ i \in CleanIdx : TextMonthKey(upload.rows[i][1]) = key })

C6_Witness ==
    /\ Succeeded
    /\ upload.rows[1][1] = StrYB(24, "Dec")
    /\ upload.rows[2][1] = StrYB(24, "Jan")
    /\ response.forecast[1].Month = Disp("Jan", 2024)
    /\ response.forecast[response.rows_received].Month = Disp("Dec", 2024)

\* C7: in a success response the twelve forecast months are consecutive
\* calendar months, December being followed by January of the next year,
\* and the first is the month after the latest month among the retained
\* historical rows.
C7_ForecastMonthsConsecutive ==
    Succeeded =>
      LET f == response.forecast
          n == response.rows_received
          latest == CHOOSE k \in { TextMonthKey(upload.rows[i][1]) : i \in CleanIdx } :
                       \A i \in CleanIdx : TextMonthKey(upload.rows[i][1]) <= k
      IN  /\ DispMonthKey(f[n + 1].Month) = latest + 1
          /\ \A i \in (n + 1)..(n + 11) :
                IF f[i].Month.b = "Dec"
                THEN f[i + 1].Month = Disp("Jan", f[i].Month.y + 1)
                ELSE /\ f[i + 1].Month.y = f[i].Month.y
                     /\ \E m \in 1..11 : /\ MonthAbbr[m] = f[i].Month.b
                                         /\ MonthAbbr[m + 1] = f[i + 1].Month.b

\* a later month is uploaded but dropped by the numeric cleaning, so the
\* horizon starts after the latest retained month
C7_Witness ==
    /\ Succeeded
    /\ \E i \in UploadIdx : upload.rows[i][1] = StrYB(24, "Dec")
    /\ \A i \in CleanIdx : upload.rows[i][1] = StrYB(24, "Jan")
    /\ response.forecast[response.rows_received + 1].Month = Disp("Feb", 2024)
    /\ response.forecast[response.rows_received + 12].Month = Disp("Jan", 2025)

\* C8 as stated: the net forecast of every forecast row is the sum of the
\* two unrounded forecast values, rounded once to two decimals.
C8_NetIsRoundedSum ==
    Succeeded =>
      \A k \in 1..12 :
        LET i == forecasts["Inflow"][k]
            o == forecasts["Outflow"][k]
            rec == response.forecast[response.rows_received + k]
        IN  (i.kind = "num" /\ o.kind = "num") =>
              rec.Net_Cashflow_Forecast = Num(Round2v(i.v + o.v))

\* C8 amended: the net forecast of every forecast row is the sum of the two
\* forecast values after each was rounded to two decimals (the row's own
\* Inflow_Forecast + Outflow_Forecast); it is null when either is missing.
C8_NetIsSumOfRounded ==
    Succeeded =>
      \A k \in 1..12 :
        LET i == forecasts["Inflow"][k]
            o == forecasts["Outflow"][k]
            rec == response.forecast[response.rows_received + k]
        IN  /\ (i.kind = "num" /\ o.kind = "num") =>
                 /\ rec.Inflow_Forecast = Num(Round2v(i.v))
                 /\ rec.Outflow_Forecast = Num(Round2v(o.v))
                 /\ rec.Net_Cashflow_Forecast = Num(Round2v(i.v) + Round2v(o.v))
                 /\ rec.Net_Cashflow = rec.Net_Cashflow_Forecast
            /\ (i.kind # "num" \/ o.kind # "num") =>
                 rec.Net_Cashflow_Forecast = None

\* both forecasts carry a third decimal, and rounding each before adding
\* differs from rounding the sum
C8_Witness ==
    /\ Succeeded
    /\ forecasts["Inflow"][1] = Num(100007)
    /\ forecasts["Outflow"][1] = Num(100007)
    /\ response.forecast[response.rows_received + 1].Net_Cashflow_Forecast = Num(200020)

\* C9: every row retained by the cleaning has numeric Inflow and Outflow
\* and Net_Cashflow = Inflow + Outflow, whatever the upload's own net
\* column said; rows with a non-numeric Inflow or Outflow are not retained.
C9_NetIsInflowPlusOutflow ==
    ( /\ "numeric" \in ran
      /\ SchemaComplete )
    => /\ \A j \in 1..Len(df.rows) :
            LET inflow == df.rows[j][ColIdx(df.columns, "Inflow")]
                outflow == df.rows[j][ColIdx(df.columns, "Outflow")]
                net == df.rows[j][ColIdx(df.columns, "Net_Cashflow")]
            IN  /\ inflow.kind = "num"
                /\ outflow.kind = "num"
                /\ net.kind = "num"
                /\ net.v = inflow.v + outflow.v
       /\ Len(df.rows) = Cardinality(CleanIdx)
       /\ Succeeded =>
            \A j \in 1..response.rows_received :
               LET rec == response.forecast[j]
               IN  /\ rec.Inflow.kind = "num"
                   /\ rec.Outflow.kind = "num"
                   /\ rec.Net_Cashflow = Num(rec.Inflow.v + rec.Outflow.v)

C9_Witness ==
    /\ Succeeded
    /\ Len(upload.columns) = 4
    /\ \E i \in UploadIdx : upload.rows[i][4] = UploadNet /\ ~NumericRow(upload.rows[i])
    /\ response.rows_received = 3
    /\ response.forecast[1].Net_Cashflow = Num(60000)

\* C10: when at least one month value matches the first format, the second
\* format is not tried and exactly the rows matching the first format
\* survive the date step, rows in the second format being dropped; the
\* second format is tried only when no value matched the first.
C10_DateFormatAllOrNothing ==
    ( /\ "parse" \in ran
      /\ Uploaded
      /\ HasCol(StandardizeColumns(upload.columns), "Month") )
    => /\ AnyPrimary => ~retried
       /\ retried => ~AnyPrimary
       /\ pc = "numeric" =>
            /\ Len(df.rows)
                 = Cardinality({ i \in UploadIdx : MatchesPrimary(upload.rows[i][1]) })
            /\ \A j \in 1..Len(df.rows) :
                  LET m == df.rows[j][ColIdx(df.columns, "Month")]
                  IN  /\ m.kind = "ts"
                      /\ m.d = 1
                      /\ \E i \in UploadIdx :
                            /\ MatchesPrimary(upload.rows[i][1])
                            /\ TextMonthKey(upload.rows[i][1]) = m.y * 12 + m.mon

C10_Witness ==
    /\ pc = "numeric"
    /\ ~retried
    /\ \E i \in UploadIdx : MatchesPrimary(upload.rows[i][1])
    /\ \E i \in UploadIdx : MatchesFallback(upload.rows[i][1])
    /\ Len(df.rows) = 1
    /\ Len(upload.rows) = 3

====
